---- MODULE Spec2Model ----
(***************************************************************************)
(* SevenShift frontend: the authenticated API client (api/client.js), the  *)
(* vehicle list screen (VehicleList.vue) that fetches through it, and the  *)
(* session around them: auth store, login form, logout button and route   *)
(* guard; also the catalog drill-down (CatalogBrowser.vue) and the         *)
(* dashboard statistics (DashboardView.vue), which use the same client.    *)
(*                                                                         *)
(* The browser runs one task at a time, so every action below is one task  *)
(* of the event loop: a user event with the watcher flush that follows it, *)
(* or the arrival of one HTTP response with the promise continuations it   *)
(* resumes.  The backend is outside the repository: which status it        *)
(* answers, and in which order, is a nondeterministic choice.              *)
(***************************************************************************)
EXTENDS Integers, Sequences, FiniteSets, TLC

VARIABLES
    localStorage,   \* browser storage: access_token, refresh_token
    href,           \* window.location.href, "/login" once the client redirects
    reqs,           \* every call made through apiClient, in issue order
    mounted,        \* the list screen's onMounted hook has run
    vehicles,       \* ref: the rows shown, named by the query they answer
    count,          \* ref
    loading,        \* ref
    search,         \* ref (filter)
    statusFilter,   \* ref (filter)
    page,           \* ref
    rejected,       \* a promise returned by fetchVehicles has rejected
    events,         \* user events handled so far (mount, input, click, submit)
    route,          \* router: name of the current route
    accessToken,    \* auth store ref
    user,           \* auth store ref
    loginError,     \* LoginView ref `error`
    loginLoading,   \* LoginView ref `loading`
    nav,            \* router: the navigation whose guard awaits fetchMe
    catalog,        \* CatalogBrowser refs, one field per ref
    stats           \* DashboardView ref: the four values shown

vars == <<localStorage, href, reqs, mounted, vehicles, count, loading, search,
          statusFilter, page, rejected, events, route, accessToken, user,
          loginError, loginLoading, nav, catalog, stats>>

viewVars == <<catalog, stats>>

authVars == <<route, accessToken, user, loginError, loginLoading>>

screenVars == <<mounted, vehicles, count, loading, search, statusFilter, page,
                rejected>>

----------------------------------------------------------------------------
(* Bounds of the model *)

MaxEvents == 3      \* user events one screen instance handles
MaxRefresh == 2     \* refresh calls made on behalf of one request
MaxEventsHealthy == 4   \* user events while every request is answered 200
MaxEventsSession == 4   \* user events in a session that starts at the login form
MaxCount == 60          \* records the backend holds, for the pagination arithmetic
MaxEventsPager == 3     \* Prev / Next clicks on a loaded list
MaxEventsGuard == 3     \* navigations, logins and logouts after the page loads
MaxEventsCatalog == 5   \* mount, searches and clicks in the catalog browser

(* Program constants *)

pageSize == 25
NoToken == 0        \* localStorage.getItem(...) === null
FirstToken == 1     \* the token pair a login stored before the screen opened

(* Values the user can enter *)

SearchValues == {"", "abc"}
StatusValues == {"", "active"}

\* ref('') of the make filter: vehiclesApi defines no getMakes, so the call in
\* onMounted throws before any request is made, makes stays [] and the make
\* select never offers anything but ''.
makeFilter == ""

(* The backend *)

\* error.response is undefined when no response was received.
NoResponse == -1

\* 500 stands for every HTTP error status other than 401.
ErrorStatuses == {401, 500, NoResponse}

\* Access token the refresh endpoint hands out to the refresh made for
\* request i: an opaque value, different for every request.
NewAccess(i) == FirstToken + i

\* Records matching a query: 57 in the fleet, 45 of them active, 40 of them
\* matching the search (all of these active).
Matching(q) ==
    IF "search" \in DOMAIN q THEN 40
    ELSE IF "status" \in DOMAIN q THEN 45
    ELSE 57

\* Body of a 200 answer to a list request: { count, results }.
ListBody(q) == [results |-> q, count |-> Matching(q)]

NoParams == [k \in {} |-> ""]

----------------------------------------------------------------------------
(* api/client.js *)

\* Variant: the interceptor does not read storage.
AttachHeaderOnly(store, header) == header

\* Request interceptor: the stored access token, when there is one, replaces
\* the Authorization header; otherwise the header stays as it is.
AttachToken(store, header) ==
    IF store.access_token # NoToken THEN store.access_token ELSE header

\* A fresh call through apiClient, sent while storage is `store`.
NewCall(kind, params, store) ==
    [kind |-> kind, params |-> params, pc |-> "sent", _retry |-> FALSE,
     attempts |-> 1, refreshes |-> 0, auth |-> AttachToken(store, NoToken),
     sentRefresh |-> NoToken, status |-> 0]

\* vehiclesApi.list(params)
NewRequest(params) == NewCall("list", params, localStorage)

\* A settled request: its promise resolved or rejected on an answer of `status`.
Settled(req, pc, status) ==
    [req EXCEPT !.pc = pc, !.status = status, !.auth = NoToken,
                !.sentRefresh = NoToken]

\* The promise of request i has not settled yet.
Outstanding(i) == reqs[i].pc \in {"sent", "refreshing"}

\* Variant: the _retry flag is not consulted.
ShouldRefreshIgnoringRetry(req, status) == status = 401

\* Variant: any failed response starts the refresh flow.
ShouldRefreshOnAnyError(req, status) == ~req._retry

ShouldRefresh(req, status) == status = 401 /\ ~req._retry

\* Variant: the new access token is not written to storage.
StorageWithoutNewToken(access) == localStorage

\* Variant: the refresh also overwrites the stored refresh token.
StorageRotatingRefresh(access) == [access_token |-> access, refresh_token |-> access]

StorageAfterRefresh(access) == [localStorage EXCEPT !.access_token = access]

\* Variant: only the access token is removed.
ClearedAccessOnly == [localStorage EXCEPT !.access_token = NoToken]

ClearedStorage == [access_token |-> NoToken, refresh_token |-> NoToken]

----------------------------------------------------------------------------
(* VehicleList.vue *)

\* Variant: the quotient is rounded down.
Floor(a, b) == a \div b

Ceil(a, b) == (a + b - 1) \div b

totalPages == Ceil(count, pageSize)

\* The Next and Prev buttons are enabled (their :disabled is false).
hasNext == ~(page >= totalPages)

hasPrev == ~(page <= 1)

\* Variant: empty filters are sent as empty strings.
QueryParamsWithEmpty(s, st, mk, p) ==
    [search |-> s, status |-> st, make |-> mk, page |-> p, page_size |-> pageSize]

\* The params object fetchVehicles builds: `x || undefined` drops empty filters.
QueryParams(s, st, mk, p) ==
    LET f == [search |-> s, status |-> st, make |-> mk]
        keys == {k \in DOMAIN f : f[k] # ""} \cup {"page", "page_size"}
    IN [k \in keys |-> IF k = "page" THEN p
                       ELSE IF k = "page_size" THEN pageSize ELSE f[k]]

\* Variant: the filter watcher does not reset page.
PageKept(p) == p

PageAfterFilterChange(p) == 1

\* Variant: loading is cleared after the assignments instead of in `finally`.
LoadingClearedOnSuccessOnly(ok) == IF ok THEN FALSE ELSE loading

LoadingAfterSettle(ok) == FALSE

\* Variant: a failed fetch empties the list.
CommitOrClear(ok, body) ==
    IF ok THEN <<body.results, body.count>> ELSE <<NoParams, 0>>

CommitResult(ok, body) ==
    IF ok THEN <<body.results, body.count>> ELSE <<vehicles, count>>

\* fetchVehicles after its await, once the request's promise settles.
CallerSettles(ok, body) ==
    /\ vehicles' = CommitResult(ok, body)[1]
    /\ count' = CommitResult(ok, body)[2]
    /\ loading' = LoadingAfterSettle(ok)
    /\ rejected' = (rejected \/ ~ok)
    /\ UNCHANGED <<mounted, search, statusFilter, page>>
    /\ UNCHANGED <<authVars, nav, viewVars>>

----------------------------------------------------------------------------
(* stores/auth.js, LoginView.vue, TopBar.vue *)

\* GET /auth/me/ answers the current user; user = ref(null) before.
Me == "me"

NoUser == "null"

InvalidCredentials == "Invalid credentials. Please try again."

\* POST /auth/token/ answers { access, refresh }: opaque values, different for
\* every login request and from every refreshed token.
LoginTokens(i) == [access_token |-> 100 + i, refresh_token |-> 200 + i]

\* login() after `await authApi.login`: both tokens go to storage.
StorageAfterLogin(i) == LoginTokens(i)

isAuthenticated == accessToken # NoToken

(* router (part_005) *)

ProtectedRoutes == {"Dashboard", "VehicleList", "CatalogBrowser"}

Routes == {"Login"} \cup ProtectedRoutes

\* Before the first navigation has been confirmed no route is shown.
NoRoute == "none"

\* No navigation is waiting for its guard.
NoNav == [to |-> NoRoute, req |-> 0]

\* beforeEach, first test: a route that is not public needs a session.
NeedsLogin(to, token) == to \in ProtectedRoutes /\ token = NoToken

\* beforeEach, second test: a session whose user is not loaded yet.
NeedsUser(token, usr) == token # NoToken /\ usr = NoUser

\* Variant: the guard lets every navigation through.
UnguardedTarget(to, token, usr) == to

\* Where router.push(to) ends when the guard does not have to await: at
\* Login after a redirect, or at `to`.
GuardedTarget(to, token, usr) == IF NeedsLogin(to, token) THEN "Login" ELSE to

\* auth.login after its first await, and handleLogin's catch / finally when
\* the token request failed.
LoginSettles(i, ok) ==
    /\ accessToken' = IF ok THEN LoginTokens(i).access_token ELSE accessToken
    /\ loginError' = IF ok THEN loginError ELSE InvalidCredentials
    /\ loginLoading' = IF ok THEN loginLoading ELSE FALSE
    /\ UNCHANGED <<route, user, screenVars, nav, viewVars>>

\* fetchMe after its await, then the rest of login and of handleLogin:
\* router.push({ name: 'Dashboard' }) or the catch, and the finally.
MeSettles(ok) ==
    /\ user' = IF ok THEN Me ELSE user
    /\ route' = IF ok THEN GuardedTarget("Dashboard", accessToken, Me) ELSE route
    /\ nav' = IF ok THEN NoNav ELSE nav
    /\ loginError' = IF ok THEN loginError ELSE InvalidCredentials
    /\ loginLoading' = FALSE
    /\ UNCHANGED <<accessToken, screenVars, viewVars>>

\* A LoginView created when the route becomes Login starts with its refs at
\* their initial values; one that is already shown keeps them.
LoginViewOnArrival(to) ==
    /\ loginError' = IF route # "Login" /\ to = "Login" THEN "" ELSE loginError
    /\ loginLoading' = IF route # "Login" /\ to = "Login" THEN FALSE ELSE loginLoading

\* beforeEach after `await auth.fetchMe()` for request i.  On success the
\* guard returns nothing: the navigation is confirmed unless a later one has
\* replaced it.  On failure the catch runs auth.logout() and returns the
\* Login route, a redirect the router follows.
GuardSettles(i, ok) ==
    LET to == IF ~ok THEN "Login"
              ELSE IF nav.req = i THEN nav.to ELSE route
    IN /\ user' = IF ok THEN Me ELSE NoUser
       /\ accessToken' = IF ok THEN accessToken ELSE NoToken
       /\ route' = to
       /\ nav' = IF ~ok \/ nav.req = i THEN NoNav ELSE nav
       /\ LoginViewOnArrival(to)
       /\ UNCHANGED <<screenVars, viewVars>>

----------------------------------------------------------------------------
(* CatalogBrowser.vue *)

\* selectedMake = ref(null), and the same for model and generation.
NoSelection == 0

catalogPageSize == 100

Tiers == {"makes", "models", "generations", "variants"}

\* The catalog the backend holds: makes 1 and 2 (only make 1 matches the
\* search text), and under every entry one entry of the next tier, whose id
\* is ten times its parent's plus one.
AllMakes == {1, 2}

MakesMatching(text) == IF text = "" THEN AllMakes ELSE {1}

Children(id) == {10 * id + 1}

ParentOf(id) == id \div 10

\* Query of fetchMakes: `search.value || undefined`.
MakesQuery(text) ==
    IF text = "" THEN [page_size |-> catalogPageSize]
    ELSE [search |-> text, page_size |-> catalogPageSize]

\* Query of the models, generations and variants requests: the parent's id.
ChildrenQuery(id) == [parent |-> id, page_size |-> catalogPageSize]

\* data.results of a 200 answer to a catalog request.
CatalogResults(kind, q) ==
    IF kind = "makes"
    THEN MakesMatching(IF "search" \in DOMAIN q THEN q.search ELSE "")
    ELSE Children(q.parent)

CatalogInit ==
    [makes |-> {}, selectedMake |-> NoSelection,
     models |-> {}, selectedModel |-> NoSelection,
     generations |-> {}, selectedGeneration |-> NoSelection,
     variants |-> {}, search |-> "",
     loading |-> [t \in Tiers |-> FALSE]]

\* onMounted(fetchMakes) has run.
CatalogMounted == \E i \in DOMAIN reqs : reqs[i].kind = "makes"

\* A catalog function after its await: on success the two assignments; on
\* failure the await throws and both are skipped.
CatalogSettles(i, ok) ==
    /\ catalog' = IF ok
                  THEN [catalog EXCEPT
                          ![reqs[i].kind] = CatalogResults(reqs[i].kind, reqs[i].params),
                          !.loading[reqs[i].kind] = FALSE]
                  ELSE catalog
    /\ UNCHANGED <<screenVars, authVars, nav, stats>>

----------------------------------------------------------------------------
(* DashboardView.vue *)

\* value: '—', shown until a count replaces it (no count is negative).
Placeholder == -1

Stats == 1..4

\* data.count of the four requests: vehicles, active contracts, makes, active
\* offers.
StatCount(k) == IF k = 1 THEN 57 ELSE IF k = 3 THEN 2 ELSE 10 * k

\* The request made for statistic k.
StatReq(k) == CHOOSE i \in DOMAIN reqs : reqs[i].kind = "stat" /\ reqs[i].params.stat = k

\* Variant: Promise.all, one rejection and nothing is shown.
StatsShownAllOrNothing(fulfilled) ==
    IF \A k \in Stats : fulfilled[k] THEN [k \in Stats |-> StatCount(k)] ELSE stats

\* The four assignments after Promise.allSettled.
StatsShown(fulfilled) ==
    [k \in Stats |-> IF fulfilled[k] THEN StatCount(k) ELSE stats[k]]

\* The promise of a statistics request settles; onMounted goes on once all
\* four have.
StatSettles(i, ok) ==
    LET mine == reqs[i].params.stat
        all == \A k \in Stats \ {mine} : ~Outstanding(StatReq(k))
        fulfilled == [k \in Stats |-> IF k = mine THEN ok
                                      ELSE reqs[StatReq(k)].pc = "resolved"]
    IN /\ stats' = IF all THEN StatsShown(fulfilled) ELSE stats
       /\ UNCHANGED <<screenVars, authVars, nav, catalog>>

\* The views other than the vehicle list before they are shown.
ViewsInit ==
    /\ nav = NoNav
    /\ catalog = CatalogInit
    /\ stats = [k \in Stats |-> Placeholder]

----------------------------------------------------------------------------
(* What the caller of a settled request does next *)

\* Variant: a failed fetch is issued again.
FetchAgainOnFailure(ok) ==
    IF ok THEN << >>
    ELSE << NewRequest(QueryParams(search, statusFilter, makeFilter, page)) >>

\* fetchVehicles makes no further request after its await.
FetchIssuesOnSettle(ok) == << >>

\* The requests the caller of request i makes when its promise settles:
\* login goes on to fetchMe.
IssuedOnSettle(i, ok, store) ==
    CASE reqs[i].kind = "list" -> FetchIssuesOnSettle(ok)
      [] reqs[i].kind = "login" ->
            IF ok THEN << NewCall("me", NoParams, store) >> ELSE << >>
      [] OTHER -> << >>

\* Variant: any failure reported to a caller clears the credentials.
StorageClearedOnFailure(i, ok, store) ==
    IF ok THEN (IF reqs[i].kind = "login" THEN StorageAfterLogin(i) ELSE store)
    ELSE ClearedStorage

\* Variant: a failure of a request that was already retried clears the
\* credentials.
StorageClearedOnRetriedFailure(i, ok, store) ==
    IF ok THEN (IF reqs[i].kind = "login" THEN StorageAfterLogin(i) ELSE store)
    ELSE IF reqs[i]._retry THEN ClearedStorage ELSE store

\* What the caller of request i writes to storage when its promise settles:
\* login stores the tokens, the guard's catch logs out.
StorageAfterSettle(i, ok, store) ==
    IF reqs[i].kind = "login" /\ ok THEN StorageAfterLogin(i)
    ELSE IF reqs[i].kind = "guard" /\ ~ok THEN ClearedStorage
    ELSE store

Continuation(i, ok) ==
    CASE reqs[i].kind = "list" -> CallerSettles(ok, ListBody(reqs[i].params))
      [] reqs[i].kind = "login" -> LoginSettles(i, ok)
      [] reqs[i].kind = "me" -> MeSettles(ok)
      [] reqs[i].kind = "guard" -> GuardSettles(i, ok)
      [] reqs[i].kind = "stat" -> StatSettles(i, ok)
      [] OTHER -> CatalogSettles(i, ok)

----------------------------------------------------------------------------
Init ==
    /\ localStorage = [access_token |-> FirstToken, refresh_token |-> FirstToken]
    /\ href = "/vehicles"
    /\ reqs = << >>
    /\ mounted = FALSE
    /\ vehicles = NoParams
    /\ count = 0
    /\ loading = FALSE
    /\ search = ""
    /\ statusFilter = ""
    /\ page = 1
    /\ rejected = FALSE
    /\ events = 0
    /\ route = "VehicleList"
    /\ accessToken = FirstToken
    /\ user = Me
    /\ loginError = ""
    /\ loginLoading = FALSE
    /\ ViewsInit

\* onMounted: fetchVehicles().
Mount ==
    /\ route = "VehicleList"
    /\ ~mounted
    /\ events' = events + 1
    /\ mounted' = TRUE
    /\ loading' = TRUE
    /\ reqs' = Append(reqs, NewRequest(QueryParams(search, statusFilter, makeFilter, page)))
    /\ UNCHANGED <<localStorage, href, vehicles, count, search, statusFilter,
                   page, rejected, authVars, nav, viewVars>>

\* A filter input changes; the filter watcher runs, and the page watcher after
\* it when the reset changed page.
SetFilter(key, value) ==
    /\ route = "VehicleList"
    /\ mounted
    /\ LET s == IF key = "search" THEN value ELSE search
           st == IF key = "status" THEN value ELSE statusFilter
           p == PageAfterFilterChange(page)
           fetch == NewRequest(QueryParams(s, st, makeFilter, p))
           issued == IF p # page THEN <<fetch, fetch>> ELSE <<fetch>>
       IN /\ <<s, st>> # <<search, statusFilter>>
          /\ events' = events + 1
          /\ search' = s
          /\ statusFilter' = st
          /\ page' = p
          /\ loading' = TRUE
          /\ reqs' = reqs \o issued
    /\ UNCHANGED <<localStorage, href, mounted, vehicles, count, rejected,
                   authVars, nav, viewVars>>

\* Prev / Next: page-- or page++, then the page watcher.
SetPage(delta) ==
    /\ route = "VehicleList"
    /\ mounted
    /\ totalPages > 1
    /\ IF delta = 1 THEN hasNext ELSE hasPrev
    /\ events' = events + 1
    /\ page' = page + delta
    /\ loading' = TRUE
    /\ reqs' = Append(reqs, NewRequest(
                  QueryParams(search, statusFilter, makeFilter, page + delta)))
    /\ UNCHANGED <<localStorage, href, mounted, vehicles, count, search,
                   statusFilter, rejected, authVars, nav, viewVars>>

\* A 2xx response: the response interceptor passes it through.
RespondOk(i) ==
    /\ reqs[i].pc = "sent"
    /\ localStorage' = StorageAfterSettle(i, TRUE, localStorage)
    /\ reqs' = [reqs EXCEPT ![i] = Settled(@, "resolved", 200)]
                \o IssuedOnSettle(i, TRUE, localStorage')
    /\ Continuation(i, TRUE)
    /\ UNCHANGED <<href, events>>

\* An error response to a request that is not to be refreshed: rejected as is.
RespondError(i, status) ==
    /\ reqs[i].pc = "sent"
    /\ ~ShouldRefresh(reqs[i], status)
    /\ localStorage' = StorageAfterSettle(i, FALSE, localStorage)
    /\ reqs' = [reqs EXCEPT ![i] = Settled(@, "rejected", status)]
                \o IssuedOnSettle(i, FALSE, localStorage')
    /\ Continuation(i, FALSE)
    /\ UNCHANGED <<href, events>>

\* An error response the interceptor recovers from (a 401 to a request not
\* yet retried): mark the request and post the refresh call.
Respond401(i, status) ==
    /\ reqs[i].pc = "sent"
    /\ ShouldRefresh(reqs[i], status)
    /\ reqs[i].refreshes < MaxRefresh
    /\ reqs' = [reqs EXCEPT ![i].pc = "refreshing", ![i]._retry = TRUE,
                            ![i].refreshes = @ + 1, ![i].status = status,
                            ![i].sentRefresh = localStorage.refresh_token]
    /\ UNCHANGED <<localStorage, href, screenVars, events, authVars, nav, viewVars>>

\* The refresh call answers with a new access token: store it, re-issue.
\* (No backend grants a refresh to a call that carried `refresh: null`.)
RefreshSuccess(i) ==
    /\ reqs[i].pc = "refreshing"
    /\ reqs[i].sentRefresh # NoToken
    /\ localStorage' = StorageAfterRefresh(NewAccess(i))
    /\ reqs' = [reqs EXCEPT ![i].pc = "sent", ![i].attempts = @ + 1,
                            ![i].sentRefresh = NoToken,
                            ![i].auth = AttachToken(localStorage', NewAccess(i))]
    /\ UNCHANGED <<href, screenVars, events, authVars, nav, viewVars>>

\* The refresh call fails: clear storage, redirect, reject with the 401.
RefreshFailure(i) ==
    /\ reqs[i].pc = "refreshing"
    /\ localStorage' = StorageAfterSettle(i, FALSE, ClearedStorage)
    /\ href' = "/login"
    /\ reqs' = [reqs EXCEPT ![i] = Settled(@, "rejected", 401)]
                \o IssuedOnSettle(i, FALSE, localStorage')
    /\ Continuation(i, FALSE)
    /\ UNCHANGED events

\* LoginView: the form is submitted (the button is disabled while loading).
HandleLogin ==
    /\ route = "Login"
    /\ ~loginLoading
    /\ events' = events + 1
    /\ loginError' = ""
    /\ loginLoading' = TRUE
    /\ reqs' = Append(reqs, NewCall("login", NoParams, localStorage))
    /\ UNCHANGED <<localStorage, href, screenVars, route, accessToken, user,
                   nav, viewVars>>

\* The user follows the sidebar link to the vehicle list: the route guard lets
\* an authenticated session with a loaded user through.  The screen is
\* opened once in a session, so every list response belongs to its refs.
OpenVehicleList ==
    /\ route = "Dashboard"
    /\ isAuthenticated
    /\ user # NoUser
    /\ \A i \in DOMAIN reqs : reqs[i].kind # "list"
    /\ events' = events + 1
    /\ route' = "VehicleList"
    /\ UNCHANGED <<localStorage, href, reqs, screenVars, accessToken, user,
                   loginError, loginLoading, nav, viewVars>>

\* TopBar handleLogout: auth.logout(), then router.push({ name: 'Login' });
\* the list screen is unmounted and a fresh LoginView is shown.
HandleLogout ==
    /\ route \in ProtectedRoutes
    /\ events' = events + 1
    /\ user' = NoUser
    /\ accessToken' = NoToken
    /\ localStorage' = ClearedStorage
    /\ route' = "Login"
    /\ mounted' = FALSE
    /\ loginError' = ""
    /\ loginLoading' = FALSE
    /\ nav' = NoNav
    /\ UNCHANGED <<href, reqs, vehicles, count, loading, search, statusFilter,
                   page, rejected, viewVars>>

\* router.push(to), a link or the back button: beforeEach runs up to its
\* await.  The initial navigation of a loaded page is the first of these.
Navigate(to) ==
    /\ to # route
    /\ events' = events + 1
    /\ IF NeedsLogin(to, accessToken) \/ ~NeedsUser(accessToken, user)
       THEN /\ route' = GuardedTarget(to, accessToken, user)
            /\ nav' = NoNav
            /\ reqs' = reqs
            /\ LoginViewOnArrival(GuardedTarget(to, accessToken, user))
       ELSE /\ reqs' = Append(reqs, NewCall("guard", NoParams, localStorage))
            /\ nav' = [to |-> to, req |-> Len(reqs) + 1]
            /\ UNCHANGED <<route, loginError, loginLoading>>
    /\ UNCHANGED <<localStorage, href, screenVars, accessToken, user, viewVars>>

\* CatalogBrowser fetchMakes, called by onMounted and by watch(search).
FetchMakes(text) ==
    /\ catalog' = [catalog EXCEPT !.search = text, !.loading.makes = TRUE]
    /\ reqs' = Append(reqs, NewCall("makes", MakesQuery(text), localStorage))
    /\ events' = events + 1
    /\ UNCHANGED <<localStorage, href, screenVars, authVars, nav, stats>>

MountCatalog ==
    /\ route = "CatalogBrowser"
    /\ ~CatalogMounted
    /\ FetchMakes(catalog.search)

\* The search box changes.
SetCatalogSearch(text) ==
    /\ route = "CatalogBrowser"
    /\ CatalogMounted
    /\ text # catalog.search
    /\ FetchMakes(text)

\* Click on a button of the Makes column.
SelectMake(make) ==
    /\ route = "CatalogBrowser"
    /\ make \in catalog.makes
    /\ catalog' = [catalog EXCEPT !.selectedMake = make,
                                  !.selectedModel = NoSelection,
                                  !.selectedGeneration = NoSelection,
                                  !.generations = {},
                                  !.variants = {},
                                  !.loading.models = TRUE]
    /\ reqs' = Append(reqs, NewCall("models", ChildrenQuery(make), localStorage))
    /\ events' = events + 1
    /\ UNCHANGED <<localStorage, href, screenVars, authVars, nav, stats>>

\* Click on a button of the Models column.
SelectModel(model) ==
    /\ route = "CatalogBrowser"
    /\ model \in catalog.models
    /\ catalog' = [catalog EXCEPT !.selectedModel = model,
                                  !.selectedGeneration = NoSelection,
                                  !.variants = {},
                                  !.loading.generations = TRUE]
    /\ reqs' = Append(reqs, NewCall("generations", ChildrenQuery(model), localStorage))
    /\ events' = events + 1
    /\ UNCHANGED <<localStorage, href, screenVars, authVars, nav, stats>>

\* Click on a button of the Generations column.
SelectGeneration(generation) ==
    /\ route = "CatalogBrowser"
    /\ generation \in catalog.generations
    /\ catalog' = [catalog EXCEPT !.selectedGeneration = generation,
                                  !.loading.variants = TRUE]
    /\ reqs' = Append(reqs, NewCall("variants", ChildrenQuery(generation), localStorage))
    /\ events' = events + 1
    /\ UNCHANGED <<localStorage, href, screenVars, authVars, nav, stats>>

\* DashboardView onMounted: the four requests go out together.
MountDashboard ==
    /\ route = "Dashboard"
    /\ \A i \in DOMAIN reqs : reqs[i].kind # "stat"
    /\ reqs' = reqs \o [k \in Stats |-> NewCall("stat", [stat |-> k], localStorage)]
    /\ events' = events + 1
    /\ UNCHANGED <<localStorage, href, screenVars, authVars, nav, viewVars>>

\* User events (within the budget) and what the network delivers.
Next ==
    \/ events < MaxEvents /\ Mount
    \/ events < MaxEvents /\ \E v \in SearchValues : SetFilter("search", v)
    \/ events < MaxEvents /\ \E v \in StatusValues : SetFilter("status", v)
    \/ events < MaxEvents /\ \E d \in {-1, 1} : SetPage(d)
    \/ \E i \in DOMAIN reqs : RespondOk(i)
    \/ \E i \in DOMAIN reqs, s \in ErrorStatuses : RespondError(i, s)
    \/ \E i \in DOMAIN reqs, s \in ErrorStatuses : Respond401(i, s)
    \/ \E i \in DOMAIN reqs : RefreshSuccess(i)
    \/ \E i \in DOMAIN reqs : RefreshFailure(i)

Spec == Init /\ [][Next]_vars

\* The same screen against a backend that answers every request 200, in any
\* order: longer sessions, no failures.
NextHealthy ==
    \/ events < MaxEventsHealthy /\ Mount
    \/ events < MaxEventsHealthy /\ \E v \in SearchValues : SetFilter("search", v)
    \/ events < MaxEventsHealthy /\ \E v \in StatusValues : SetFilter("status", v)
    \/ events < MaxEventsHealthy /\ \E d \in {-1, 1} : SetPage(d)
    \/ \E i \in DOMAIN reqs : RespondOk(i)

SpecHealthy == Init /\ [][NextHealthy]_vars

\* A whole session: the application is loaded with no credentials stored and
\* shows the login form.
InitSession ==
    /\ localStorage = ClearedStorage
    /\ href = "/login"
    /\ reqs = << >>
    /\ mounted = FALSE
    /\ vehicles = NoParams
    /\ count = 0
    /\ loading = FALSE
    /\ search = ""
    /\ statusFilter = ""
    /\ page = 1
    /\ rejected = FALSE
    /\ events = 0
    /\ route = "Login"
    /\ accessToken = NoToken
    /\ user = NoUser
    /\ loginError = ""
    /\ loginLoading = FALSE
    /\ ViewsInit

NextSession ==
    \/ events < MaxEventsSession /\ HandleLogin
    \/ events < MaxEventsSession /\ OpenVehicleList
    \/ events < MaxEventsSession /\ HandleLogout
    \/ events < MaxEventsSession /\ Mount
    \/ events < MaxEventsSession /\ \E v \in SearchValues : SetFilter("search", v)
    \/ events < MaxEventsSession /\ \E v \in StatusValues : SetFilter("status", v)
    \/ events < MaxEventsSession /\ \E d \in {-1, 1} : SetPage(d)
    \/ \E i \in DOMAIN reqs : RespondOk(i)
    \/ \E i \in DOMAIN reqs, s \in ErrorStatuses : RespondError(i, s)
    \/ \E i \in DOMAIN reqs, s \in ErrorStatuses : Respond401(i, s)
    \/ \E i \in DOMAIN reqs : RefreshSuccess(i)
    \/ \E i \in DOMAIN reqs : RefreshFailure(i)

SpecSession == InitSession /\ [][NextSession]_vars

\* Pagination on a loaded list: the screen as it is once the fetch made on
\* mount has been answered by a backend holding c records.
InitPager ==
    /\ localStorage = [access_token |-> FirstToken, refresh_token |-> FirstToken]
    /\ href = "/vehicles"
    /\ reqs = << Settled(NewCall("list", QueryParams("", "", makeFilter, 1), localStorage),
                         "resolved", 200) >>
    /\ mounted = TRUE
    /\ vehicles = QueryParams("", "", makeFilter, 1)
    /\ count \in 0..MaxCount
    /\ loading = FALSE
    /\ search = ""
    /\ statusFilter = ""
    /\ page = 1
    /\ rejected = FALSE
    /\ events = 0
    /\ route = "VehicleList"
    /\ accessToken = FirstToken
    /\ user = Me
    /\ loginError = ""
    /\ loginLoading = FALSE
    /\ ViewsInit

NextPager ==
    \/ events < MaxEventsPager /\ SetPage(1)
    \/ events < MaxEventsPager /\ SetPage(-1)

SpecPager == InitPager /\ [][NextPager]_vars

\* The application as the browser loads it: the store reads the access token
\* from storage, which holds a session or none; no route is shown yet.
InitGuard ==
    /\ localStorage \in {ClearedStorage,
                         [access_token |-> FirstToken, refresh_token |-> FirstToken]}
    /\ href = "/"
    /\ reqs = << >>
    /\ mounted = FALSE
    /\ vehicles = NoParams
    /\ count = 0
    /\ loading = FALSE
    /\ search = ""
    /\ statusFilter = ""
    /\ page = 1
    /\ rejected = FALSE
    /\ events = 0
    /\ route = NoRoute
    /\ accessToken = localStorage.access_token
    /\ user = NoUser
    /\ loginError = ""
    /\ loginLoading = FALSE
    /\ ViewsInit

NextGuard ==
    \/ events < MaxEventsGuard /\ \E to \in Routes : Navigate(to)
    \/ events < MaxEventsGuard /\ HandleLogin
    \/ events < MaxEventsGuard /\ HandleLogout
    \/ \E i \in DOMAIN reqs : RespondOk(i)
    \/ \E i \in DOMAIN reqs, s \in ErrorStatuses : RespondError(i, s)
    \/ \E i \in DOMAIN reqs, s \in ErrorStatuses : Respond401(i, s)
    \/ \E i \in DOMAIN reqs : RefreshSuccess(i)
    \/ \E i \in DOMAIN reqs : RefreshFailure(i)

SpecGuard == InitGuard /\ [][NextGuard]_vars

\* An authenticated session with its user loaded, on `r`.
InitOn(r) ==
    /\ localStorage = [access_token |-> FirstToken, refresh_token |-> FirstToken]
    /\ href = "/"
    /\ reqs = << >>
    /\ mounted = FALSE
    /\ vehicles = NoParams
    /\ count = 0
    /\ loading = FALSE
    /\ search = ""
    /\ statusFilter = ""
    /\ page = 1
    /\ rejected = FALSE
    /\ events = 0
    /\ route = r
    /\ accessToken = FirstToken
    /\ user = Me
    /\ loginError = ""
    /\ loginLoading = FALSE
    /\ ViewsInit

\* The catalog browser, against a backend that answers 200 or fails with
\* something other than 401 (so that no refresh is involved).
InitCatalog == InitOn("CatalogBrowser")

NextCatalog ==
    \/ events < MaxEventsCatalog /\ MountCatalog
    \/ events < MaxEventsCatalog /\ \E text \in SearchValues : SetCatalogSearch(text)
    \/ events < MaxEventsCatalog /\ \E make \in catalog.makes : SelectMake(make)
    \/ events < MaxEventsCatalog /\ \E model \in catalog.models : SelectModel(model)
    \/ events < MaxEventsCatalog
       /\ \E generation \in catalog.generations : SelectGeneration(generation)
    \/ \E i \in DOMAIN reqs : RespondOk(i)
    \/ \E i \in DOMAIN reqs, s \in ErrorStatuses : RespondError(i, s)

SpecCatalog == InitCatalog /\ [][NextCatalog]_vars

\* The dashboard.
InitDashboard == InitOn("Dashboard")

NextDashboard ==
    \/ MountDashboard
    \/ \E i \in DOMAIN reqs : RespondOk(i)
    \/ \E i \in DOMAIN reqs, s \in ErrorStatuses : RespondError(i, s)
    \/ \E i \in DOMAIN reqs, s \in ErrorStatuses : Respond401(i, s)
    \/ \E i \in DOMAIN reqs : RefreshSuccess(i)
    \/ \E i \in DOMAIN reqs : RefreshFailure(i)

SpecDashboard == InitDashboard /\ [][NextDashboard]_vars

----------------------------------------------------------------------------
(* Properties *)

\* Request i's promise settles in this step.
Settles(i) == Outstanding(i) /\ ~Outstanding(i)'

\* The refresh call made for request i ends in this step without a re-issue.
RefreshFails(i) == reqs[i].pc = "refreshing" /\ reqs'[i].pc \notin {"refreshing", "sent"}

\* C1: when fetch A was issued before fetch B and both answers have arrived,
\* the screen shows the rows and the count of B, the most recently issued
\* fetch, whatever the order of arrival.
C1_StaleResponseDiscarded ==
    \A a, b \in DOMAIN reqs :
        (a < b /\ b = Len(reqs) /\ reqs[a].pc = "resolved" /\ reqs[b].pc = "resolved")
        => /\ vehicles = ListBody(reqs[b].params).results
           /\ count = ListBody(reqs[b].params).count

\* C2: after a 401 and a successful refresh the new access token is stored,
\* the request is re-issued exactly once with that token, and the caller gets
\* the outcome of the re-issued request: resolved, with its rows shown, when it
\* is answered 200.
C2_StoredOnRefresh ==
    \A i \in DOMAIN reqs :
        (reqs[i].pc = "refreshing" /\ reqs'[i].pc = "sent")
        => /\ localStorage'.access_token = NewAccess(i)
           /\ reqs'[i].auth = NewAccess(i)
           /\ reqs'[i].attempts = 2

C2_RetryResult ==
    \A i \in DOMAIN reqs :
        (reqs[i].attempts = 2 /\ Settles(i))
        => /\ reqs'[i].pc = "resolved" <=> reqs'[i].status = 200
           /\ reqs'[i].pc = "resolved" => vehicles' = ListBody(reqs[i].params).results

C2_RetriedOnce ==
    \A i \in DOMAIN reqs :
        /\ reqs[i].attempts <= 2
        /\ reqs[i].attempts = 2 => reqs[i]._retry /\ reqs[i].refreshes = 1
        /\ (reqs[i].attempts = 2 /\ reqs[i].pc = "sent") => reqs[i].auth = NewAccess(i)

C2_TransparentRetry ==
    /\ []C2_RetriedOnce
    /\ [][C2_StoredOnRefresh /\ C2_RetryResult]_vars

C2_Witness ==
    \E i \in DOMAIN reqs :
        /\ reqs[i].attempts = 2
        /\ reqs[i].pc = "resolved"
        /\ vehicles = ListBody(reqs[i].params).results
        /\ ~rejected

\* C3: no request ever has more than one refresh call made on its behalf.
C3_AtMostOneRefresh == \A i \in DOMAIN reqs : reqs[i].refreshes <= 1

C3_Witness ==
    \E i \in DOMAIN reqs :
        /\ reqs[i].attempts = 2
        /\ reqs[i].pc = "rejected"
        /\ reqs[i].status = 401
        /\ reqs[i].refreshes = 1

\* C4: when the refresh call made for a request fails, that step removes both
\* tokens from storage, sets the location to /login and rejects the caller's
\* promise with the 401.
C4_RefreshFailureStep ==
    \A i \in DOMAIN reqs :
        RefreshFails(i)
        => /\ localStorage'.access_token = NoToken
           /\ localStorage'.refresh_token = NoToken
           /\ href' = "/login"
           /\ reqs'[i].pc = "rejected"
           /\ reqs'[i].status = 401
           /\ rejected'

C4_RefreshFailureTerminates == [][C4_RefreshFailureStep]_vars

C4_Witness ==
    \E i \in DOMAIN reqs :
        /\ reqs[i].pc = "rejected"
        /\ reqs[i]._retry
        /\ reqs[i].attempts = 1
        /\ localStorage = [access_token |-> NoToken, refresh_token |-> NoToken]
        /\ href = "/login"

\* C5: at most one refresh call is outstanding at any time.
C5_OneRefreshOutstanding ==
    Cardinality({i \in DOMAIN reqs : reqs[i].pc = "refreshing"}) <= 1

\* C6: a step that changes a filter value leaves page at 1 and issues a fetch,
\* and every fetch issued in that step carries page = 1.
C6_FilterChangeStep ==
    (search' # search \/ statusFilter' # statusFilter)
    => /\ page' = 1
       /\ Len(reqs') > Len(reqs)
       /\ \A k \in DOMAIN reqs' \ DOMAIN reqs : reqs'[k].params.page = 1

C6_FilterChangeResetsPage == [][C6_FilterChangeStep]_vars

\* The screen was on page 2 when the search was entered.
C6_Witness ==
    \E j \in DOMAIN reqs :
        /\ j > 1
        /\ reqs[j - 1].params.page = 2
        /\ "search" \notin DOMAIN reqs[j - 1].params
        /\ "search" \in DOMAIN reqs[j].params
        /\ reqs[j].params.page = 1
        /\ page = 1

\* C7: while the most recently issued fetch is outstanding, loading is true.
C7_LoadingUntilLatestCompletes ==
    (reqs # << >> /\ Outstanding(Len(reqs))) => loading

\* C8: the step in which a fetch fails leaves the rows and the count shown
\* as they were.
C8_FailureStep ==
    \A i \in DOMAIN reqs :
        (Settles(i) /\ reqs'[i].pc = "rejected") => (vehicles' = vehicles /\ count' = count)

C9_LoadingClearedOnCompletion ==
    (\A i \in DOMAIN reqs : ~Outstanding(i)) => ~loading

C9_Witness ==
    /\ \A i \in DOMAIN reqs : ~Outstanding(i)
    /\ \E i \in DOMAIN reqs : reqs[i].pc = "rejected"
    /\ \E i \in DOMAIN reqs : reqs[i].pc = "resolved"
    /\ ~loading

\* C10: no failure of a fetch escapes the list screen as a rejected promise.
C10_NeverThrows == ~rejected

\* C11: whenever the count is known and gives at least one page, page lies
\* in 1..totalPages.
C11_PageInRange == totalPages >= 1 => (1 <= page /\ page <= totalPages)

\* C16: status set to 'active', then search to 'abc', then page 2, 40 records
\* matching: the last fetch carries {status, search, page: 2, page_size: 25},
\* and once every request is answered totalPages = 2 and Next is disabled.
C16_ScenarioPlayed ==
    /\ Len(reqs) >= 3
    /\ DOMAIN reqs[Len(reqs) - 2].params = {"status", "page", "page_size"}
    /\ DOMAIN reqs[Len(reqs) - 1].params = {"status", "search", "page", "page_size"}
    /\ reqs[Len(reqs) - 1].params.page = 1
    /\ statusFilter = "active" /\ search = "abc" /\ page = 2
    /\ \A i \in DOMAIN reqs : reqs[i].pc = "resolved"

C16_Scenario ==
    C16_ScenarioPlayed
    => /\ reqs[Len(reqs)].params =
              [status |-> "active", search |-> "abc", page |-> 2, page_size |-> 25]
       /\ totalPages = 2
       /\ ~hasNext

\* A login request resolves in this step.
LoginSucceeds(i) ==
    reqs[i].kind = "login" /\ reqs[i].pc = "sent" /\ reqs'[i].pc = "resolved"

\* The refresh call made for request i is answered in this step.
RefreshCompletes(i) == reqs[i].pc = "refreshing" /\ reqs'[i].pc # "refreshing"

\* The step is TopBar's handleLogout.
LogoutStep == route # "Login" /\ route' = "Login" /\ events' = events + 1

\* New requests are appended to reqs: the ones issued in this step.
IssuedNow == (DOMAIN reqs') \ (DOMAIN reqs)

\* C12: the access_token and refresh_token entries of storage change only in
\* a step in which a login succeeds, a refresh call completes, or the user
\* logs out; list fetches, filter and page changes and failures that are not
\* 401 leave both entries as they were.
C12_WriterStep ==
    localStorage' # localStorage
    => \/ \E i \in DOMAIN reqs : LoginSucceeds(i)
       \/ \E i \in DOMAIN reqs : RefreshCompletes(i)
       \/ LogoutStep

C12_StorageWrittenOnlyByAuth == [][C12_WriterStep]_vars

C12_Witness ==
    /\ localStorage = LoginTokens(1)
    /\ \E i \in DOMAIN reqs :
          /\ reqs[i].kind = "list"
          /\ reqs[i].pc = "rejected"
          /\ reqs[i].status = 500
          /\ reqs[i].refreshes = 0

\* C13: once storage holds neither token (after logout or a failed refresh),
\* it holds neither until a login succeeds, whatever request or refresh call
\* completes in between.
C13_ClearedStep ==
    (localStorage = ClearedStorage /\ localStorage' # ClearedStorage)
    => \E i \in DOMAIN reqs : LoginSucceeds(i)

C13_ClearedUntilLogin == [][C13_ClearedStep]_vars

\* C14: a request sent or re-sent through the client carries the access
\* token storage holds at that moment, and no Authorization header (NoToken)
\* when storage holds none.
C14_SendStep ==
    \A i \in DOMAIN reqs' :
        (i \in IssuedNow \/ (reqs[i].pc # "sent" /\ reqs'[i].pc = "sent"))
        => reqs'[i].auth = localStorage'.access_token

C14_CarriesStoredToken == [][C14_SendStep]_vars

C14_Witness ==
    /\ localStorage.access_token = LoginTokens(1).access_token
    /\ \E i \in DOMAIN reqs :
          /\ reqs[i].kind = "me"
          /\ reqs[i].pc = "sent"
          /\ reqs[i].auth = LoginTokens(1).access_token
    /\ reqs[1].kind = "login"
    /\ reqs[1].pc = "resolved"

\* C15: a response that is a failure other than 401 (a 5xx, or no response at
\* all) rejects the caller's promise with that failure: no refresh call, no
\* re-issue, no new request, and storage and location are left unchanged.
C15_OtherFailureStep ==
    \A i \in DOMAIN reqs :
        (/\ reqs[i].pc = "sent"
         /\ reqs'[i].pc # "sent"
         /\ reqs'[i].status \in ErrorStatuses \ {401})
        => /\ reqs'[i].pc = "rejected"
           /\ reqs'[i].refreshes = reqs[i].refreshes
           /\ reqs'[i].attempts = reqs[i].attempts
           /\ IssuedNow = {}
           /\ localStorage' = localStorage
           /\ href' = href
           /\ reqs[i].kind = "list" => rejected'

C15_OtherFailuresPropagate == [][C15_OtherFailureStep]_vars

C15_Witness ==
    /\ localStorage = [access_token |-> FirstToken, refresh_token |-> FirstToken]
    /\ rejected
    /\ \E i, j \in DOMAIN reqs :
          /\ reqs[i].pc = "rejected" /\ reqs[i].status = 500
          /\ reqs[j].pc = "rejected" /\ reqs[j].status = NoResponse
          /\ reqs[i].attempts = 1 /\ reqs[j].attempts = 1
          /\ reqs[i].refreshes = 0 /\ reqs[j].refreshes = 0

\* C17: every list request issued carries the query state of that moment:
\* page and page_size always, each filter exactly when it is not empty and
\* then with its current value.
C17_FetchStep ==
    \A i \in IssuedNow :
        reqs'[i].kind = "list"
        => LET q == reqs'[i].params
           IN /\ {"page", "page_size"} \subseteq DOMAIN q
              /\ q.page = page'
              /\ q.page_size = pageSize
              /\ "search" \in DOMAIN q <=> search' # ""
              /\ "search" \in DOMAIN q => q.search = search'
              /\ "status" \in DOMAIN q <=> statusFilter' # ""
              /\ "status" \in DOMAIN q => q.status = statusFilter'
              /\ "make" \in DOMAIN q <=> makeFilter # ""
              /\ DOMAIN q \subseteq {"page", "page_size", "search", "status", "make"}

C17_ParamsSerialized == [][C17_FetchStep]_vars

C17_Witness ==
    /\ search = "abc"
    /\ statusFilter = ""
    /\ reqs # << >>
    /\ reqs[Len(reqs)].params = [search |-> "abc", page |-> 1, page_size |-> pageSize]

\* C18: totalPages is count / pageSize rounded up, Next is enabled exactly
\* when page < totalPages and Prev exactly when page > 1; 57 records in pages
\* of 25 make 3 pages, with Next enabled on pages 1 and 2 and not on page 3,
\* and Prev not enabled on page 1.
C18_Pagination ==
    /\ totalPages * pageSize >= count
    /\ (totalPages - 1) * pageSize < count
    /\ hasNext <=> page < totalPages
    /\ hasPrev <=> page > 1
    /\ (count = 57 /\ pageSize = 25)
       => /\ totalPages = 3
          /\ page \in {1, 2} => hasNext
          /\ page = 3 => ~hasNext
          /\ page = 1 => ~hasPrev

C18_Witness ==
    /\ count = 57
    /\ page = 3
    /\ ~hasNext
    /\ hasPrev

\* C19: when a login succeeds storage holds the access token and the refresh
\* token of the response; when a refresh succeeds the access token is the new
\* one and the refresh token is the one stored before.
C19_TokenStep ==
    /\ \A i \in DOMAIN reqs :
          LoginSucceeds(i)
          => /\ localStorage' = LoginTokens(i)
             /\ localStorage'.access_token # NoToken
             /\ localStorage'.refresh_token # NoToken
    /\ \A i \in DOMAIN reqs :
          (reqs[i].pc = "refreshing" /\ reqs'[i].pc = "sent")
          => /\ localStorage'.access_token = NewAccess(i)
             /\ localStorage'.refresh_token = localStorage.refresh_token

C19_LoginStoresBothRefreshOne == [][C19_TokenStep]_vars

C19_Witness ==
    \E i, j \in DOMAIN reqs :
        /\ reqs[i].kind = "login"
        /\ reqs[j].attempts = 2
        /\ localStorage = [access_token |-> NewAccess(j),
                           refresh_token |-> LoginTokens(i).refresh_token]

\* C20: a list fetch that fails causes no further list request: the step in
\* which it fails issues none, a rejected request is never sent again, and
\* every list request is issued in a step that handles a user event.
C20_NoRetryStep ==
    /\ \A i \in DOMAIN reqs :
          (reqs[i].kind = "list" /\ Settles(i) /\ reqs'[i].pc = "rejected")
          => IssuedNow = {}
    /\ \A i \in DOMAIN reqs : reqs[i].pc = "rejected" => reqs'[i] = reqs[i]
    /\ \A i \in IssuedNow : reqs'[i].kind = "list" => events' = events + 1

C20_NoAutomaticRetry == [][C20_NoRetryStep]_vars

C20_Witness ==
    /\ events < MaxEvents
    /\ rejected
    /\ ~loading
    /\ reqs # << >>
    /\ \A i \in DOMAIN reqs : reqs[i].pc = "rejected"

\* C22: a step that changes a filter issues exactly one list request,
\* whatever the page was.
C22_FilterStep ==
    <<search', statusFilter'>> # <<search, statusFilter>>
    => Len(reqs') = Len(reqs) + 1

C22_OneFetchPerFilterChange == [][C22_FilterStep]_vars

\* C23: while the login form shows 'Invalid credentials' no session is
\* stored: storage holds no token and isAuthenticated is false.
C23_FailedLoginLeavesNoSession ==
    loginError = InvalidCredentials
    => (localStorage = ClearedStorage /\ ~isAuthenticated)

\* C24: a 401 answered to the login request is rejected to the login form:
\* no refresh call, storage and location unchanged.
C24_LoginStep ==
    \A i \in DOMAIN reqs :
        (/\ reqs[i].kind = "login"
         /\ reqs[i].pc = "sent"
         /\ reqs'[i].pc # "sent"
         /\ reqs'[i].status = 401)
        => /\ reqs'[i].pc = "rejected"
           /\ reqs'[i].refreshes = reqs[i].refreshes
           /\ localStorage' = localStorage
           /\ href' = href
           /\ loginError' = InvalidCredentials

C24_Login401ReportedToFormOnly == [][C24_LoginStep]_vars

\* C25: a 401 answered to a request that was re-issued after a refresh is
\* rejected to the caller with storage and location unchanged, and the client
\* empties storage only in a step in which a refresh call fails.
C25_RetriedStep ==
    /\ \A i \in DOMAIN reqs :
          (/\ reqs[i].pc = "sent"
           /\ reqs[i]._retry
           /\ reqs'[i].pc # "sent"
           /\ reqs'[i].status = 401)
          => /\ reqs'[i].pc = "rejected"
             /\ reqs'[i].refreshes = reqs[i].refreshes
             /\ localStorage' = localStorage
             /\ href' = href
    /\ (localStorage # ClearedStorage /\ localStorage' = ClearedStorage)
       => \E i \in DOMAIN reqs : RefreshFails(i)

C25_Retried401KeepsSession == [][C25_RetriedStep]_vars

C25_Witness ==
    /\ href = "/vehicles"
    /\ \E i \in DOMAIN reqs :
          /\ reqs[i].pc = "rejected"
          /\ reqs[i].status = 401
          /\ reqs[i].attempts = 2
          /\ localStorage = [access_token |-> NewAccess(i), refresh_token |-> FirstToken]

\* C27: whenever the auth store reports an authenticated session, storage
\* holds an access token.
C27_StoreAgreesWithStorage == isAuthenticated => localStorage.access_token # NoToken

\* C21: when the request of a catalog tier fails, that tier's loading flag is
\* false afterwards.
C21_FailStep ==
    \A i \in DOMAIN reqs :
        (reqs[i].kind \in Tiers /\ Settles(i) /\ reqs'[i].pc = "rejected")
        => ~catalog'.loading[reqs[i].kind]

C21_TierLoadingClearedOnFailure == [][C21_FailStep]_vars

\* C26: a step that brings the application to a route that is not public
\* leaves isAuthenticated true and the user loaded, and a step in which the
\* guard's fetchMe fails leaves the session logged out (no user, no access
\* token in the store, storage empty) on the Login route.
C26_GuardStep ==
    /\ (route' # route /\ route' \in ProtectedRoutes)
       => (isAuthenticated' /\ user' # NoUser)
    /\ \A i \in DOMAIN reqs :
          (reqs[i].kind = "guard" /\ Settles(i) /\ reqs'[i].pc = "rejected")
          => /\ user' = NoUser
             /\ ~isAuthenticated'
             /\ localStorage' = ClearedStorage
             /\ route' = "Login"

C26_RouteGuard == [][C26_GuardStep]_vars

C26_Witness ==
    /\ route = "Login"
    /\ user = NoUser
    /\ ~isAuthenticated
    /\ localStorage = ClearedStorage
    /\ reqs # << >>
    /\ reqs[1].kind = "guard"
    /\ reqs[1].pc = "rejected"
    /\ reqs[1].status = 500

\* C28: a selected generation implies a selected model, a selected model
\* implies a selected make, and each selection is a child of the selection
\* above it.
C28_SelectionHierarchy ==
    /\ catalog.selectedGeneration # NoSelection => catalog.selectedModel # NoSelection
    /\ catalog.selectedModel # NoSelection => catalog.selectedMake # NoSelection
    /\ catalog.selectedModel # NoSelection
       => ParentOf(catalog.selectedModel) = catalog.selectedMake
    /\ catalog.selectedGeneration # NoSelection
       => ParentOf(catalog.selectedGeneration) = catalog.selectedModel

\* The list a column shows when its parent selection is `parent`.
ListFor(parent) == IF parent = NoSelection THEN {} ELSE Children(parent)

\* C29: once every catalog request has been answered 200, the models shown
\* are those of the selected make, the generations those of the selected
\* model and the variants those of the selected generation; a column whose
\* parent is not selected is empty.
C29_ListsFollowSelection ==
    (CatalogMounted /\ \A i \in DOMAIN reqs : reqs[i].pc = "resolved")
    => /\ catalog.models = ListFor(catalog.selectedMake)
       /\ catalog.generations = ListFor(catalog.selectedModel)
       /\ catalog.variants = ListFor(catalog.selectedGeneration)

\* The dashboard has mounted and its four requests have settled.
StatsSettled ==
    /\ \A k \in Stats :
          \E i \in DOMAIN reqs : reqs[i].kind = "stat" /\ reqs[i].params.stat = k
    /\ \A k \in Stats : ~Outstanding(StatReq(k))

\* C30: once the four requests have settled, a statistic shows the count of
\* its response when its request succeeded and the placeholder when it
\* failed, whatever happened to the other three.
C30_StatsIndependent ==
    StatsSettled
    => \A k \in Stats :
         stats[k] = IF reqs[StatReq(k)].pc = "resolved" THEN StatCount(k)
                    ELSE Placeholder

C30_Witness ==
    /\ StatsSettled
    /\ reqs[StatReq(1)].pc = "resolved"
    /\ reqs[StatReq(2)].pc = "rejected" /\ reqs[StatReq(2)].status = 500
    /\ reqs[StatReq(3)].pc = "rejected" /\ reqs[StatReq(3)].status = 401
    /\ reqs[StatReq(4)].pc = "resolved" /\ reqs[StatReq(4)].attempts = 2
    /\ stats = <<StatCount(1), Placeholder, Placeholder, StatCount(4)>>

====
